---- MODULE Spec2Model ----
(***************************************************************************)
(* The joint facade of rapier.js, src/dynamics/joint.rs, in its 3D build   *)
(* (feature "dim3"), with the 2D prismatic factory beside it:              *)
(*   - RawJointParams: the factories ball, fixed, prismatic, revolute;     *)
(*   - RawJointSet: the handle-keyed queries and mutators of a joint.      *)
(* f32 values are exact rationals here; vectors and rotations are tuples   *)
(* of rationals.  The operations of nalgebra and rapier the file calls     *)
(* (Unit::try_new, orthonormal_basis, scaled_axis, the joints'             *)
(* constructors and configure_* methods) are modelled at the call sites.   *)
(***************************************************************************)
EXTENDS Integers, Sequences, FiniteSets, TLC

VARIABLES joints, built, last, calls

vars == <<joints, built, last, calls>>

(***************************************************************************)
(* Rationals <<n, d>> with d > 0, in lowest terms.                         *)
(***************************************************************************)
Abs(n) == IF n < 0 THEN -n ELSE n

RECURSIVE GCD(_, _)
GCD(a, b) == IF b = 0 THEN a ELSE GCD(b, a % b)

Rat(n, d) ==
    LET s == IF d < 0 THEN -1 ELSE 1
        g == GCD(Abs(n), Abs(d))
    IN  <<(s * n) \div g, (s * d) \div g>>

R(n) == <<n, 1>>
RAdd(a, b) == Rat(a[1] * b[2] + b[1] * a[2], a[2] * b[2])
RNeg(a) == <<-a[1], a[2]>>
RSub(a, b) == RAdd(a, RNeg(b))
RMul(a, b) == Rat(a[1] * b[1], a[2] * b[2])
RDiv(a, b) == Rat(a[1] * b[2], a[2] * b[1])
RLe(a, b) == a[1] * b[2] <= b[1] * a[2]

IsSquare(n) == \E k \in 0..n : k * k = n
ISqrt(n) == CHOOSE k \in 0..n : k * k = n
\* The square root, for the rationals that have a rational one.
RSqrt(a) == <<ISqrt(a[1]), ISqrt(a[2])>>
HasRSqrt(a) == a[1] >= 0 /\ IsSquare(a[1]) /\ IsSquare(a[2])

(***************************************************************************)
(* Option<T>, as wasm-bindgen hands it to the caller.                      *)
(***************************************************************************)
None == [some |-> FALSE]
Some(v) == [some |-> TRUE, value |-> v]

(***************************************************************************)
(* Vectors (RawVector) and the linear algebra the file uses.               *)
(***************************************************************************)
Vec(x, y, z) == <<R(x), R(y), R(z)>>
Vec2(x, y) == <<R(x), R(y)>>
Zero3 == Vec(0, 0, 0)

RECURSIVE SumSq(_, _)
SumSq(v, i) == IF i = 0 THEN R(0) ELSE RAdd(RMul(v[i], v[i]), SumSq(v, i - 1))

norm_squared(v) == SumSq(v, Len(v))
norm(v) == RSqrt(norm_squared(v))
unscale(v, n) == [i \in 1..Len(v) |-> RDiv(v[i], n)]

cross(u, v) ==
    << RSub(RMul(u[2], v[3]), RMul(u[3], v[2])),
       RSub(RMul(u[3], v[1]), RMul(u[1], v[3])),
       RSub(RMul(u[1], v[2]), RMul(u[2], v[1])) >>

dot(u, v) == RAdd(RAdd(RMul(u[1], v[1]), RMul(u[2], v[2])), RMul(u[3], v[3]))

\* Unit::try_new(value, min_norm): None when the norm is not above min_norm,
\* the value divided by its norm otherwise.
try_new(value, min_norm) ==
    LET n == norm(value)
    IN  IF RLe(n, min_norm) THEN None ELSE Some(unscale(value, n))

\* rapier::utils::WBasis for Vector3: two unit vectors that complete the unit
\* vector v to an orthonormal basis (the branchless construction).
orthonormal_basis(v) ==
    LET sign == IF RLe(R(0), v[3]) THEN R(1) ELSE R(-1)
        a == RDiv(R(-1), RAdd(sign, v[3]))
        b == RMul(RMul(v[1], v[2]), a)
    IN  << << RAdd(R(1), RMul(RMul(sign, RMul(v[1], v[1])), a)),
              RMul(sign, b),
              RNeg(RMul(sign, v[1])) >>,
           << b,
              RAdd(sign, RMul(RMul(v[2], v[2]), a)),
              RNeg(v[2]) >> >>

(***************************************************************************)
(* Rotations (RawRotation).  A frame rotation is held as the matrix it     *)
(* denotes, <<column 1, column 2, column 3>>.                              *)
(***************************************************************************)
Identity == <<Vec(1, 0, 0), Vec(0, 1, 0), Vec(0, 0, 1)>>
RotZ90 == <<Vec(0, 1, 0), Vec(-1, 0, 0), Vec(0, 0, 1)>>

\* The image of v under the rotation with columns m.
Apply(m, v) ==
    [i \in 1..3 |-> RAdd(RAdd(RMul(m[1][i], v[1]), RMul(m[2][i], v[2])),
                         RMul(m[3][i], v[3]))]

det(m) == dot(m[1], cross(m[2], m[3]))

(***************************************************************************)
(* The joints of rapier the factories build (JointParams), with the        *)
(* fields the facade reads or writes.  SpringModel::default() is           *)
(* VelocityBased; f32::MAX is the sentinel F32_MAX.                        *)
(***************************************************************************)
F32_MAX == 2147483647

QuatIdentity == <<R(1), R(0), R(0), R(0)>>

BallJoint_new(local_anchor1, local_anchor2) ==
    [ type              |-> "BallJoint",
      local_anchor1     |-> local_anchor1,
      local_anchor2     |-> local_anchor2,
      motor_target_vel  |-> Zero3,
      motor_target_pos  |-> QuatIdentity,
      motor_stiffness   |-> 0,
      motor_damping     |-> 0,
      motor_model       |-> "VelocityBased" ]

FixedJoint_new(local_frame1, local_frame2) ==
    [ type         |-> "FixedJoint",
      local_frame1 |-> local_frame1,
      local_frame2 |-> local_frame2 ]

RevoluteJoint_new(local_anchor1, local_axis1, local_anchor2, local_axis2) ==
    [ type              |-> "RevoluteJoint",
      local_anchor1     |-> local_anchor1,
      local_axis1       |-> local_axis1,
      local_anchor2     |-> local_anchor2,
      local_axis2       |-> local_axis2,
      motor_target_vel  |-> 0,
      motor_target_pos  |-> 0,
      motor_stiffness   |-> 0,
      motor_damping     |-> 0,
      motor_model       |-> "VelocityBased" ]

\* The basis PrismaticJoint::new (3D) derives from an axis and a tangent: the
\* bitangent axis x tangent when it can be normalized (norm above 1.0e-3),
\* an arbitrary orthonormal basis of the axis otherwise.
TangentMinNorm == Rat(1, 1000)

PrismaticBasis(local_axis, local_tangent) ==
    LET local_bitangent == try_new(cross(local_axis, local_tangent), TangentMinNorm)
    IN  IF local_bitangent.some
        THEN <<local_bitangent.value, cross(local_bitangent.value, local_axis)>>
        ELSE orthonormal_basis(local_axis)

PrismaticJoint_new(local_anchor1, local_axis1, local_tangent1, local_anchor2, local_axis2, local_tangent2) ==
    [ type              |-> "PrismaticJoint",
      local_anchor1     |-> local_anchor1,
      local_axis1       |-> local_axis1,
      local_anchor2     |-> local_anchor2,
      local_axis2       |-> local_axis2,
      basis1            |-> PrismaticBasis(local_axis1, local_tangent1),
      basis2            |-> PrismaticBasis(local_axis2, local_tangent2),
      limits_enabled    |-> FALSE,
      limits            |-> <<-F32_MAX, F32_MAX>>,
      motor_target_vel  |-> 0,
      motor_target_pos  |-> 0,
      motor_stiffness   |-> 0,
      motor_damping     |-> 0,
      motor_model       |-> "VelocityBased" ]

\* PrismaticJoint::new of the 2D build: the basis is the axis turned a quarter.
PrismaticJoint_new_dim2(local_anchor1, local_axis1, local_anchor2, local_axis2) ==
    [ type              |-> "PrismaticJoint",
      local_anchor1     |-> local_anchor1,
      local_axis1       |-> local_axis1,
      local_anchor2     |-> local_anchor2,
      local_axis2       |-> local_axis2,
      basis1            |-> << <<RNeg(local_axis1[2]), local_axis1[1]>> >>,
      basis2            |-> << <<RNeg(local_axis2[2]), local_axis2[1]>> >>,
      limits_enabled    |-> FALSE,
      limits            |-> <<-F32_MAX, F32_MAX>>,
      motor_target_vel  |-> 0,
      motor_target_pos  |-> 0,
      motor_stiffness   |-> 0,
      motor_damping     |-> 0,
      motor_model       |-> "VelocityBased" ]

(***************************************************************************)
(* RawJointParams: the factories.                                          *)
(***************************************************************************)
ball(anchor1, anchor2) == BallJoint_new(anchor1, anchor2)

\* Isometry::from_parts(translation, rotation)
Isometry_from_parts(translation, rotation) ==
    [translation |-> translation, rotation |-> rotation]

\* fixed, were the two frames handed over in the wrong order.
fixed_frames_swapped(anchor1, axes1, anchor2, axes2) ==
    LET pos1 == Isometry_from_parts(anchor1, axes1)
        pos2 == Isometry_from_parts(anchor2, axes2)
    IN  FixedJoint_new(pos2, pos1)

fixed(anchor1, axes1, anchor2, axes2) ==
    LET pos1 == Isometry_from_parts(anchor1, axes1)
        pos2 == Isometry_from_parts(anchor2, axes2)
    IN  FixedJoint_new(pos1, pos2)

\* The limits, were they put in order before they are stored.
WithLimits_ordered(joint, limitsEnabled, limitsMin, limitsMax) ==
    IF limitsEnabled
    THEN [joint EXCEPT !.limits_enabled = TRUE,
                       !.limits = IF limitsMin <= limitsMax
                                  THEN <<limitsMin, limitsMax>>
                                  ELSE <<limitsMax, limitsMin>>]
    ELSE joint

WithLimits(joint, limitsEnabled, limitsMin, limitsMax) ==
    IF limitsEnabled
    THEN [joint EXCEPT !.limits_enabled = TRUE, !.limits = <<limitsMin, limitsMax>>]
    ELSE joint

\* prismatic, were the tangents validated like the axes.
prismatic_validating_tangents(anchor1, axis1, tangent1, anchor2, axis2, tangent2, limitsEnabled, limitsMin, limitsMax) ==
    LET a1 == try_new(axis1, R(0))
        a2 == try_new(axis2, R(0))
        t1 == try_new(tangent1, R(0))
        t2 == try_new(tangent2, R(0))
    IN  IF ~a1.some \/ ~a2.some \/ ~t1.some \/ ~t2.some THEN None
        ELSE Some(WithLimits(
                 PrismaticJoint_new(anchor1, a1.value, tangent1,
                                    anchor2, a2.value, tangent2),
                 limitsEnabled, limitsMin, limitsMax))

prismatic(anchor1, axis1, tangent1, anchor2, axis2, tangent2, limitsEnabled, limitsMin, limitsMax) ==
    LET a1 == try_new(axis1, R(0))
        a2 == try_new(axis2, R(0))
    IN  IF ~a1.some THEN None
        ELSE IF ~a2.some THEN None
        ELSE Some(WithLimits(
                 PrismaticJoint_new(anchor1, a1.value, tangent1,
                                    anchor2, a2.value, tangent2),
                 limitsEnabled, limitsMin, limitsMax))

prismatic_dim2(anchor1, axis1, anchor2, axis2, limitsEnabled, limitsMin, limitsMax) ==
    LET a1 == try_new(axis1, R(0))
        a2 == try_new(axis2, R(0))
    IN  IF ~a1.some THEN None
        ELSE IF ~a2.some THEN None
        ELSE Some(WithLimits(
                 PrismaticJoint_new_dim2(anchor1, a1.value, anchor2, a2.value),
                 limitsEnabled, limitsMin, limitsMax))

\* revolute, were axis2 taken as given instead of normalized.
revolute_axis2_unchecked(anchor1, axis1, anchor2, axis2) ==
    LET a1 == try_new(axis1, R(0))
    IN  IF ~a1.some THEN None
        ELSE Some(RevoluteJoint_new(anchor1, a1.value, anchor2, axis2))

revolute(anchor1, axis1, anchor2, axis2) ==
    LET a1 == try_new(axis1, R(0))
        a2 == try_new(axis2, R(0))
    IN  IF ~a1.some THEN None
        ELSE IF ~a2.some THEN None
        ELSE Some(RevoluteJoint_new(anchor1, a1.value, anchor2, a2.value))

(***************************************************************************)
(* RawJointSet.  joints maps each handle of the set to its joint           *)
(* [body1, body2, params]; built remembers, per handle, the joint as it    *)
(* was inserted and the factory call that made it; last is the call made   *)
(* last and what the caller got; calls counts the calls on the set.        *)
(***************************************************************************)
MaxJoints == 2
MaxCalls == 3

Handles == 0..(MaxJoints - 1)
\* The handles a caller may pass: those of the arena and one never issued.
AnyHandle == 0..MaxJoints

NotFound == [panic |-> TRUE, error |-> "NotFound"]
Returned(v) == [panic |-> FALSE, value |-> v]

\* RawJointSet::map: what the closure returns on the joint of the handle
\* (value, looked at only when the handle is in the set); a handle that is
\* not in the set fails.
map(handle, value) ==
    IF handle \in DOMAIN joints THEN Returned(value) ELSE NotFound

\* RawJointSet::map_mut: the set after the closure changed the joint's params
\* to newParams.
map_mut(handle, newParams) ==
    IF handle \in DOMAIN joints
    THEN [joints EXCEPT ![handle].params = newParams]
    ELSE joints

map_mut_result(handle) ==
    IF handle \in DOMAIN joints THEN Returned("unit") ELSE NotFound

(***************************************************************************)
(* Queries.                                                                *)
(***************************************************************************)
jointBodyHandle1(handle) == map(handle, joints[handle].body1)

jointBodyHandle2(handle) == map(handle, joints[handle].body2)

jointType_match(params) ==
    CASE params.type = "BallJoint" -> "Ball"
      [] params.type = "FixedJoint" -> "Fixed"
      [] params.type = "PrismaticJoint" -> "Prismatic"
      [] params.type = "RevoluteJoint" -> "Revolute"

jointType(handle) == map(handle, jointType_match(joints[handle].params))

\* Rotation3::axis(): the antisymmetric part of the matrix, normalized; None
\* when its norm is not above f32::EPSILON, which it is for the angles 0 and
\* pi.  Every rational the model holds that is not 0 is above f32::EPSILON.
Rotation3_axis_vector(m) ==
    << RSub(m[2][3], m[3][2]), RSub(m[3][1], m[1][3]), RSub(m[1][2], m[2][1]) >>

Rotation3_has_axis(m) == norm_squared(Rotation3_axis_vector(m)) # R(0)

\* rotmat.scaled_axis() then UnitQuaternion::new(axisangle): the rotation of
\* the matrix when it has an axis, the zero vector and so the identity
\* rotation when it has none.
UnitQuaternion_new_scaled_axis(rotmat) ==
    IF Rotation3_has_axis(rotmat) THEN rotmat ELSE Identity

\* The matrix of columns [local_axis, basis_a, basis_b] of jointFrameX1/2.
FrameMatrix(local_axis) ==
    LET basis_a == orthonormal_basis(local_axis)[1]
        basis_b == cross(local_axis, basis_a)
    IN  <<local_axis, basis_a, basis_b>>

jointFrameX1_match(params) ==
    CASE params.type = "BallJoint" -> Identity
      [] params.type = "FixedJoint" -> params.local_frame1.rotation
      [] params.type \in {"RevoluteJoint", "PrismaticJoint"} ->
            UnitQuaternion_new_scaled_axis(FrameMatrix(params.local_axis1))

jointFrameX1(handle) == map(handle, jointFrameX1_match(joints[handle].params))

jointFrameX2_match(params) ==
    CASE params.type = "BallJoint" -> Identity
      [] params.type = "FixedJoint" -> params.local_frame2.rotation
      [] params.type \in {"RevoluteJoint", "PrismaticJoint"} ->
            UnitQuaternion_new_scaled_axis(FrameMatrix(params.local_axis2))

jointFrameX2(handle) == map(handle, jointFrameX2_match(joints[handle].params))

jointAnchor1_match(params) ==
    CASE params.type = "FixedJoint" -> params.local_frame1.translation
      [] OTHER -> params.local_anchor1

jointAnchor1(handle) == map(handle, jointAnchor1_match(joints[handle].params))

jointAnchor2_match(params) ==
    CASE params.type = "FixedJoint" -> params.local_frame2.translation
      [] OTHER -> params.local_anchor2

jointAnchor2(handle) == map(handle, jointAnchor2_match(joints[handle].params))

jointAxis1_match(params) ==
    CASE params.type \in {"BallJoint", "FixedJoint"} -> None
      [] OTHER -> Some(params.local_axis1)

jointAxis1(handle) == map(handle, jointAxis1_match(joints[handle].params))

jointAxis2_match(params) ==
    CASE params.type \in {"BallJoint", "FixedJoint"} -> None
      [] OTHER -> Some(params.local_axis2)

jointAxis2(handle) == map(handle, jointAxis2_match(joints[handle].params))

jointLimitsEnabled_match(params) ==
    CASE params.type = "PrismaticJoint" -> params.limits_enabled
      [] OTHER -> FALSE

jointLimitsEnabled(handle) == map(handle, jointLimitsEnabled_match(joints[handle].params))

jointLimitsMin_match(params) ==
    CASE params.type = "PrismaticJoint" -> params.limits[1]
      [] OTHER -> -F32_MAX

\* jointLimitsMin, were a missing handle answered with the sentinel.
jointLimitsMin_defaulting(handle) ==
    IF handle \in DOMAIN joints
    THEN Returned(jointLimitsMin_match(joints[handle].params))
    ELSE Returned(-F32_MAX)

jointLimitsMin(handle) == map(handle, jointLimitsMin_match(joints[handle].params))

jointLimitsMax_match(params) ==
    CASE params.type = "PrismaticJoint" -> params.limits[2]
      [] OTHER -> F32_MAX

jointLimitsMax(handle) == map(handle, jointLimitsMax_match(joints[handle].params))

(***************************************************************************)
(* The configure_* methods of rapier's joints.  The Ball motor (3D) holds  *)
(* a target velocity vector and a target unit quaternion, the Prismatic    *)
(* and Revolute motors scalars.                                            *)
(***************************************************************************)
configure_motor_model(joint, model) == [joint EXCEPT !.motor_model = model]

configure_motor(joint, target_pos, target_vel, stiffness, damping) ==
    [joint EXCEPT !.motor_target_vel = target_vel,
                  !.motor_target_pos = target_pos,
                  !.motor_stiffness = stiffness,
                  !.motor_damping = damping]

\* na::zero() of the joint's velocity type.
zero_vel(joint) == IF joint.type = "BallJoint" THEN Zero3 ELSE 0

configure_motor_velocity(joint, target_vel, factor) ==
    configure_motor(joint, joint.motor_target_pos, target_vel, 0, factor)

configure_motor_position(joint, target_pos, stiffness, damping) ==
    configure_motor(joint, target_pos, zero_vel(joint), stiffness, damping)

configure_local_anchor1_position(joint, newPos) == [joint EXCEPT !.local_anchor1 = newPos]

configure_local_anchor2_position(joint, newPos) == [joint EXCEPT !.local_anchor2 = newPos]

(***************************************************************************)
(* Mutators: the closure each hands to map_mut, then the call itself.      *)
(***************************************************************************)
\* The record of a mutator call: the call and what the caller gets.
Called(op, handle, args) ==
    /\ last' = [op |-> op, handle |-> handle, args |-> args,
                result |-> map_mut_result(handle)]
    /\ calls' = calls + 1
    /\ UNCHANGED built

\* setJointAnchor1's closure, were the Revolute arm to move the other anchor.
setJointAnchor1_match_other_side(params, newPos) ==
    CASE params.type = "BallJoint" -> configure_local_anchor1_position(params, newPos)
      [] params.type = "RevoluteJoint" -> configure_local_anchor2_position(params, newPos)
      [] params.type = "PrismaticJoint" -> configure_local_anchor1_position(params, newPos)
      [] params.type = "FixedJoint" -> params

setJointAnchor1_match(params, newPos) ==
    CASE params.type = "BallJoint" -> configure_local_anchor1_position(params, newPos)
      [] params.type = "RevoluteJoint" -> configure_local_anchor1_position(params, newPos)
      [] params.type = "PrismaticJoint" -> configure_local_anchor1_position(params, newPos)
      [] params.type = "FixedJoint" -> params

\* setJointAnchor1, were the closure run on every joint of the set.
setJointAnchor1_every_joint(handle, newPos) ==
    /\ calls < MaxCalls
    /\ joints' = [h \in DOMAIN joints |->
                    [joints[h] EXCEPT !.params = setJointAnchor1_match(@, newPos)]]
    /\ Called("setJointAnchor1", handle, <<newPos>>)

setJointAnchor1(handle, newPos) ==
    /\ calls < MaxCalls
    /\ joints' = map_mut(handle, setJointAnchor1_match(joints[handle].params, newPos))
    /\ Called("setJointAnchor1", handle, <<newPos>>)

setJointAnchor2_match(params, newPos) ==
    CASE params.type = "BallJoint" -> configure_local_anchor2_position(params, newPos)
      [] params.type = "RevoluteJoint" -> configure_local_anchor2_position(params, newPos)
      [] params.type = "PrismaticJoint" -> configure_local_anchor2_position(params, newPos)
      [] params.type = "FixedJoint" -> params

setJointAnchor2(handle, newPos) ==
    /\ calls < MaxCalls
    /\ joints' = map_mut(handle, setJointAnchor2_match(joints[handle].params, newPos))
    /\ Called("setJointAnchor2", handle, <<newPos>>)

\* RawSpringModel -> SpringModel
SpringModel(model) ==
    CASE model = "Disabled" -> "Disabled"
      [] model = "VelocityBased" -> "VelocityBased"
      [] model = "AccelerationBased" -> "AccelerationBased"
      [] model = "ForceBased" -> "ForceBased"

jointConfigureMotorModel_match(params, model) ==
    CASE params.type = "PrismaticJoint" -> configure_motor_model(params, model)
      [] params.type = "BallJoint" -> configure_motor_model(params, model)
      [] params.type = "RevoluteJoint" -> configure_motor_model(params, model)
      [] params.type = "FixedJoint" -> params

jointConfigureMotorModel(handle, model) ==
    /\ calls < MaxCalls
    /\ joints' = map_mut(handle, jointConfigureMotorModel_match(joints[handle].params, SpringModel(model)))
    /\ Called("jointConfigureMotorModel", handle, <<model>>)

jointConfigureBallMotorVelocity_match(params, targetVel, factor) ==
    CASE params.type = "BallJoint" -> configure_motor_velocity(params, targetVel, factor)
      [] OTHER -> params

jointConfigureBallMotorVelocity(handle, targetVel, factor) ==
    /\ calls < MaxCalls
    /\ joints' = map_mut(handle, jointConfigureBallMotorVelocity_match(joints[handle].params, targetVel, factor))
    /\ Called("jointConfigureBallMotorVelocity", handle, <<targetVel, factor>>)

\* 1.0e-5, in the unit the quaternions of the model are given in.
QuatTolerance == 1

\* UnitQuaternion::try_new, were the tolerance 0.
UnitQuaternion_try_new_no_tolerance(quat) == try_new(quat, R(0))

\* UnitQuaternion::try_new(quat, 1.0e-5)
UnitQuaternion_try_new(quat) == try_new(quat, R(QuatTolerance))

jointConfigureBallMotorPosition_match(params, quat, stiffness, damping) ==
    CASE params.type = "BallJoint" ->
            LET unit_quat == UnitQuaternion_try_new(quat)
            IN  IF unit_quat.some
                THEN configure_motor_position(params, unit_quat.value, stiffness, damping)
                ELSE params
      [] OTHER -> params

jointConfigureBallMotorPosition(handle, quat, stiffness, damping) ==
    /\ calls < MaxCalls
    /\ joints' = map_mut(handle, jointConfigureBallMotorPosition_match(joints[handle].params, quat, stiffness, damping))
    /\ Called("jointConfigureBallMotorPosition", handle, <<quat, stiffness, damping>>)

jointConfigureBallMotor_match(params, quat, vel, stiffness, damping) ==
    CASE params.type = "BallJoint" ->
            LET unit_quat == UnitQuaternion_try_new(quat)
            IN  IF unit_quat.some
                THEN configure_motor(params, unit_quat.value, vel, stiffness, damping)
                ELSE params
      [] OTHER -> params

jointConfigureBallMotor(handle, quat, vel, stiffness, damping) ==
    /\ calls < MaxCalls
    /\ joints' = map_mut(handle, jointConfigureBallMotor_match(joints[handle].params, quat, vel, stiffness, damping))
    /\ Called("jointConfigureBallMotor", handle, <<quat, vel, stiffness, damping>>)

\* The closure, were its Ball arm to drive the motor as the 2D build does
\* (about z, the one rotation axis of that build).
jointConfigureUnitMotorVelocity_match_dim2(params, targetVel, factor) ==
    CASE params.type = "PrismaticJoint" -> configure_motor_velocity(params, targetVel, factor)
      [] params.type = "RevoluteJoint" -> configure_motor_velocity(params, targetVel, factor)
      [] params.type = "BallJoint" ->
            configure_motor_velocity(params, Vec(0, 0, targetVel), factor)
      [] params.type = "FixedJoint" -> params

\* In the 3D build the Ball arm of the unit-motor calls is empty.
jointConfigureUnitMotorVelocity_match(params, targetVel, factor) ==
    CASE params.type = "PrismaticJoint" -> configure_motor_velocity(params, targetVel, factor)
      [] params.type = "RevoluteJoint" -> configure_motor_velocity(params, targetVel, factor)
      [] params.type = "BallJoint" -> params
      [] params.type = "FixedJoint" -> params

jointConfigureUnitMotorVelocity(handle, targetVel, factor) ==
    /\ calls < MaxCalls
    /\ joints' = map_mut(handle, jointConfigureUnitMotorVelocity_match(joints[handle].params, targetVel, factor))
    /\ Called("jointConfigureUnitMotorVelocity", handle, <<targetVel, factor>>)

jointConfigureUnitMotorPosition_match(params, targetPos, stiffness, damping) ==
    CASE params.type = "PrismaticJoint" -> configure_motor_position(params, targetPos, stiffness, damping)
      [] params.type = "RevoluteJoint" -> configure_motor_position(params, targetPos, stiffness, damping)
      [] params.type = "BallJoint" -> params
      [] params.type = "FixedJoint" -> params

jointConfigureUnitMotorPosition(handle, targetPos, stiffness, damping) ==
    /\ calls < MaxCalls
    /\ joints' = map_mut(handle, jointConfigureUnitMotorPosition_match(joints[handle].params, targetPos, stiffness, damping))
    /\ Called("jointConfigureUnitMotorPosition", handle, <<targetPos, stiffness, damping>>)

jointConfigureUnitMotor_match(params, targetPos, targetVel, stiffness, damping) ==
    CASE params.type = "PrismaticJoint" -> configure_motor(params, targetPos, targetVel, stiffness, damping)
      [] params.type = "RevoluteJoint" -> configure_motor(params, targetPos, targetVel, stiffness, damping)
      [] params.type = "BallJoint" -> params
      [] params.type = "FixedJoint" -> params

jointConfigureUnitMotor(handle, targetPos, targetVel, stiffness, damping) ==
    /\ calls < MaxCalls
    /\ joints' = map_mut(handle, jointConfigureUnitMotor_match(joints[handle].params, targetPos, targetVel, stiffness, damping))
    /\ Called("jointConfigureUnitMotor", handle, <<targetPos, targetVel, stiffness, damping>>)

(***************************************************************************)
(* Insertion and removal (the joint set's own file): a joint is inserted   *)
(* once, under the first free handle of the arena, and removed explicitly, *)
(* which invalidates its handle.                                           *)
(***************************************************************************)
FreeHandle == CHOOSE h \in Handles \ DOMAIN joints : \A g \in Handles \ DOMAIN joints : h <= g

\* from is the factory call that made params: it is remembered, not used.
createJoint(params, body1, body2, from) ==
    /\ calls < MaxCalls
    /\ Handles \ DOMAIN joints # {}
    /\ LET h == FreeHandle
           j == [body1 |-> body1, body2 |-> body2, params |-> params]
           b == [body1 |-> body1, body2 |-> body2, params |-> params, from |-> from]
       IN  /\ joints' = [x \in DOMAIN joints \cup {h} |-> IF x = h THEN j ELSE joints[x]]
           /\ built' = [x \in DOMAIN joints \cup {h} |-> IF x = h THEN b ELSE built[x]]
           /\ last' = [op |-> "createJoint", handle |-> h, args |-> <<params, body1, body2>>,
                       result |-> Returned(h)]
    /\ calls' = calls + 1

remove(handle) ==
    /\ calls < MaxCalls
    /\ handle \in DOMAIN joints
    /\ joints' = [x \in DOMAIN joints \ {handle} |-> joints[x]]
    /\ built' = [x \in DOMAIN joints \ {handle} |-> built[x]]
    /\ last' = [op |-> "remove", handle |-> handle, args |-> <<>>, result |-> Returned("unit")]
    /\ calls' = calls + 1

(***************************************************************************)
(* The values the calls are made with.                                     *)
(***************************************************************************)
Points == {Vec(0, 0, 0), Vec(1, 0, 0)}
Rotations == {Identity, RotZ90}
BodyPairs == {<<5, 7>>}
Models == {"Disabled", "ForceBased"}
\* Quaternions <<w, x, y, z>> in units of 1.0e-5: zero, of norm 1.0e-5, and a
\* normalizable one.
Quats == { <<R(0), R(0), R(0), R(0)>>, <<R(1), R(0), R(0), R(0)>>,
           <<R(0), R(3), R(4), R(0)>> }
Velocities == {Vec(0, 0, 5)}
Stiffnesses == {2}
Dampings == {3}
Factors == {4}
TargetVels == {6}
TargetPoss == {7}

(***************************************************************************)
(* Factory calls, as records of their arguments, and their results.        *)
(***************************************************************************)
BallCall(a1, a2) == [factory |-> "ball", anchor1 |-> a1, anchor2 |-> a2]

FixedCall(a1, r1, a2, r2) ==
    [factory |-> "fixed", anchor1 |-> a1, axes1 |-> r1, anchor2 |-> a2, axes2 |-> r2]

RevoluteCall(a1, x1, a2, x2) ==
    [factory |-> "revolute", anchor1 |-> a1, axis1 |-> x1, anchor2 |-> a2, axis2 |-> x2]

PrismaticCall(a1, x1, t1, a2, x2, t2, en, mn, mx) ==
    [factory |-> "prismatic", anchor1 |-> a1, axis1 |-> x1, tangent1 |-> t1,
     anchor2 |-> a2, axis2 |-> x2, tangent2 |-> t2,
     limitsEnabled |-> en, limitsMin |-> mn, limitsMax |-> mx]

PrismaticCall_dim2(a1, x1, a2, x2, en, mn, mx) ==
    [factory |-> "prismatic_dim2", anchor1 |-> a1, axis1 |-> x1,
     anchor2 |-> a2, axis2 |-> x2,
     limitsEnabled |-> en, limitsMin |-> mn, limitsMax |-> mx]

\* What the caller of the factory gets: Option<RawJointParams>; ball and fixed
\* always return a descriptor.
Make(c) ==
    CASE c.factory = "ball" -> Some(ball(c.anchor1, c.anchor2))
      [] c.factory = "fixed" -> Some(fixed(c.anchor1, c.axes1, c.anchor2, c.axes2))
      [] c.factory = "revolute" -> revolute(c.anchor1, c.axis1, c.anchor2, c.axis2)
      [] c.factory = "prismatic" ->
            prismatic(c.anchor1, c.axis1, c.tangent1, c.anchor2, c.axis2, c.tangent2,
                      c.limitsEnabled, c.limitsMin, c.limitsMax)
      [] c.factory = "prismatic_dim2" ->
            prismatic_dim2(c.anchor1, c.axis1, c.anchor2, c.axis2,
                           c.limitsEnabled, c.limitsMin, c.limitsMax)

\* The factory calls the joints of the set are made by.
Constructions ==
    { BallCall(Vec(0, 0, 0), Vec(1, 0, 0)),
      FixedCall(Vec(0, 0, 0), Identity, Vec(1, 0, 0), RotZ90),
      RevoluteCall(Vec(0, 0, 0), Vec(0, 1, 0), Vec(1, 0, 0), Vec(0, 1, 0)),
      RevoluteCall(Vec(1, 0, 0), Vec(-3, 0, 0), Vec(0, 0, 0), Vec(1, 2, 2)),
      RevoluteCall(Vec(0, 0, 0), Vec(0, 0, 0), Vec(0, 0, 0), Vec(2, 0, 0)),
      PrismaticCall(Vec(0, 0, 0), Vec(0, 0, -1), Vec(0, 3, 0),
                    Vec(1, 0, 0), Vec(0, 2, 0), Zero3, FALSE, -1, 2),
      PrismaticCall(Vec(1, 0, 0), Vec(-3, 0, 0), Zero3,
                    Vec(0, 0, 0), Vec(1, 2, 2), Vec(2, 4, 4), TRUE, 2, -1) }

\* The descriptors the caller got from them, each with the call that made it.
Descriptors ==
    {[from |-> c, params |-> Make(c).value] : c \in {c \in Constructions : Make(c).some}}

Init ==
    /\ joints = <<>>
    /\ built = <<>>
    /\ last = [op |-> "new", handle |-> MaxJoints, args |-> <<>>, result |-> Returned("unit")]
    /\ calls = 0

Next ==
    \/ \E d \in Descriptors, bp \in BodyPairs : createJoint(d.params, bp[1], bp[2], d.from)
    \/ \E h \in AnyHandle : remove(h)
    \/ \E h \in AnyHandle, p \in Points : setJointAnchor1(h, p)
    \/ \E h \in AnyHandle, p \in Points : setJointAnchor2(h, p)
    \/ \E h \in AnyHandle, m \in Models : jointConfigureMotorModel(h, m)
    \/ \E h \in AnyHandle, v \in Velocities, f \in Factors :
          jointConfigureBallMotorVelocity(h, v, f)
    \/ \E h \in AnyHandle, q \in Quats, s \in Stiffnesses, d \in Dampings :
          jointConfigureBallMotorPosition(h, q, s, d)
    \/ \E h \in AnyHandle, q \in Quats, v \in Velocities, s \in Stiffnesses, d \in Dampings :
          jointConfigureBallMotor(h, q, v, s, d)
    \/ \E h \in AnyHandle, v \in TargetVels, f \in Factors :
          jointConfigureUnitMotorVelocity(h, v, f)
    \/ \E h \in AnyHandle, t \in TargetPoss, s \in Stiffnesses, d \in Dampings :
          jointConfigureUnitMotorPosition(h, t, s, d)
    \/ \E h \in AnyHandle, t \in TargetPoss, v \in TargetVels, s \in Stiffnesses, d \in Dampings :
          jointConfigureUnitMotor(h, t, v, s, d)

Spec == Init /\ [][Next]_vars

(***************************************************************************)
(* The factories alone: each call is made with arguments drawn from the    *)
(* sets below; the caller gets the result and the joint set is untouched.  *)
(***************************************************************************)
FactoryAxes == {Zero3, Vec(1, 0, 0), Vec(0, 2, 0), Vec(0, 0, -1), Vec(1, 2, 2)}
FactoryTangents == {Zero3, Vec(0, 1, 0), Vec(0, 0, 3), Vec(2, 4, 4)}
FactoryLimits == {-1, 2}
Points2 == {Vec2(0, 0), Vec2(1, 0)}
FactoryAxes2 == {Vec2(0, 0), Vec2(1, 0), Vec2(0, -2), Vec2(3, 4)}

\* The bitangent axis x tangent has a rational norm.
ExactBasis(axis, tangent) == HasRSqrt(norm_squared(cross(axis, tangent)))

BallCalls == {BallCall(a1, a2) : a1 \in Points, a2 \in Points}

FixedCalls ==
    {FixedCall(a1, r1, a2, r2) : a1 \in Points, r1 \in Rotations, a2 \in Points, r2 \in Rotations}

RevoluteCalls ==
    {RevoluteCall(a1, x1, a2, x2) : a1 \in Points, x1 \in FactoryAxes, a2 \in Points, x2 \in FactoryAxes}

AxisTangents == {at \in FactoryAxes \X FactoryTangents : ExactBasis(at[1], at[2])}

PrismaticCalls ==
    {PrismaticCall(a1, at1[1], at1[2], a2, at2[1], at2[2], en, mn, mx) :
        a1 \in Points, at1 \in AxisTangents, a2 \in Points, at2 \in AxisTangents,
        en \in BOOLEAN, mn \in FactoryLimits, mx \in FactoryLimits}

PrismaticCalls_dim2 ==
    {PrismaticCall_dim2(a1, x1, a2, x2, en, mn, mx) :
        a1 \in Points2, x1 \in FactoryAxes2, a2 \in Points2, x2 \in FactoryAxes2,
        en \in BOOLEAN, mn \in FactoryLimits, mx \in FactoryLimits}

FactoryCalls == BallCalls \cup FixedCalls \cup RevoluteCalls \cup PrismaticCalls \cup PrismaticCalls_dim2

\* The caller has chosen the factory and its arguments.
InitFactory ==
    /\ joints = <<>>
    /\ built = <<>>
    /\ last \in {[op |-> "pending", handle |-> MaxJoints, args |-> c, result |-> None] :
                     c \in FactoryCalls}
    /\ calls = 0

Pending(name) == last.op = "pending" /\ last.args.factory = name

\* The caller gets the factory's result; nothing else changes.
Returns(result) ==
    /\ last' = [last EXCEPT !.op = last.args.factory, !.result = result]
    /\ UNCHANGED <<joints, built, calls>>

call_ball ==
    /\ Pending("ball")
    /\ Returns(Some(ball(last.args.anchor1, last.args.anchor2)))

call_fixed ==
    /\ Pending("fixed")
    /\ Returns(Some(fixed(last.args.anchor1, last.args.axes1, last.args.anchor2, last.args.axes2)))

call_revolute ==
    /\ Pending("revolute")
    /\ Returns(revolute(last.args.anchor1, last.args.axis1, last.args.anchor2, last.args.axis2))

call_prismatic ==
    /\ Pending("prismatic")
    /\ Returns(prismatic(last.args.anchor1, last.args.axis1, last.args.tangent1,
                         last.args.anchor2, last.args.axis2, last.args.tangent2,
                         last.args.limitsEnabled, last.args.limitsMin, last.args.limitsMax))

call_prismatic_dim2 ==
    /\ Pending("prismatic_dim2")
    /\ Returns(prismatic_dim2(last.args.anchor1, last.args.axis1,
                              last.args.anchor2, last.args.axis2,
                              last.args.limitsEnabled, last.args.limitsMin, last.args.limitsMax))

NextFactory ==
    \/ call_ball
    \/ call_fixed
    \/ call_revolute
    \/ call_prismatic
    \/ call_prismatic_dim2

SpecFactory == InitFactory /\ [][NextFactory]_vars

(***************************************************************************)
(* Claims about the factories, under SpecFactory.                          *)
(***************************************************************************)
IsZero(v) == \A i \in 1..Len(v) : v[i] = R(0)

\* u is the unit vector of the direction of v.
IsUnitOf(u, v) ==
    /\ norm_squared(u) = R(1)
    /\ \E i \in 1..Len(v) : v[i] # R(0)
    /\ \A i \in 1..Len(v) : RMul(u[i], norm(v)) = v[i]

AxisFactories == {"prismatic", "prismatic_dim2", "revolute"}

\* C1: a call of prismatic (2D, 3D) or revolute with a zero-length axis1 or
\* axis2 returns no value, and no joint exists afterwards; a call with both
\* axes non-zero returns a joint descriptor.
C1_ZeroAxisFails ==
    last.op \in AxisFactories =>
        /\ last.result.some <=> (~IsZero(last.args.axis1) /\ ~IsZero(last.args.axis2))
        /\ DOMAIN joints = {}

C1_Witness ==
    /\ last.op = "revolute"
    /\ ~IsZero(last.args.axis1)
    /\ IsZero(last.args.axis2)
    /\ ~last.result.some

ZeroTangentCall ==
    /\ last.op = "prismatic"
    /\ ~IsZero(last.args.axis1)
    /\ ~IsZero(last.args.axis2)
    /\ IsZero(last.args.tangent1) \/ IsZero(last.args.tangent2)

\* C2, as claimed: a call of the 3D prismatic factory with a zero-length
\* tangent1 or tangent2 (the axes being non-zero) returns no value.
C2_ZeroTangentFails == ZeroTangentCall => ~last.result.some

\* C2, amended: a call of the 3D prismatic factory with a zero-length
\* tangent1 or tangent2 and non-zero axes returns a Prismatic joint descriptor
\* with the normalized axes; a zero tangent is no construction failure.
C2_ZeroTangentBuilds ==
    ZeroTangentCall =>
        /\ last.result.some
        /\ last.result.value.type = "PrismaticJoint"
        /\ IsUnitOf(last.result.value.local_axis1, last.args.axis1)
        /\ IsUnitOf(last.result.value.local_axis2, last.args.axis2)

C2_Witness ==
    /\ ZeroTangentCall
    /\ IsZero(last.args.tangent1)
    /\ ~IsZero(last.args.tangent2)
    /\ last.result.some

(***************************************************************************)
(* Claims about the joint set, under Spec.                                 *)
(***************************************************************************)
AnchorOps == {"setJointAnchor1", "setJointAnchor2"}
BallMotorOps ==
    {"jointConfigureBallMotorVelocity", "jointConfigureBallMotorPosition",
     "jointConfigureBallMotor"}
UnitMotorOps ==
    {"jointConfigureUnitMotorVelocity", "jointConfigureUnitMotorPosition",
     "jointConfigureUnitMotor"}
MotorOps == {"jointConfigureMotorModel"} \cup BallMotorOps \cup UnitMotorOps
MutatorOps == AnchorOps \cup MotorOps

IsNotFound(r) == r.panic /\ r.error = "NotFound"
TypeOf(h) == joints[h].params.type

\* C3: after setJointAnchor1(h, p) on a valid handle, jointAnchor1(h) is p for
\* a Ball, Revolute or Prismatic joint and what it was before for a Fixed
\* joint, and jointAnchor2(h) is what it was before; likewise for
\* setJointAnchor2.
C3_Step ==
    \A h \in DOMAIN joints :
        (last'.op \in AnchorOps /\ last'.handle = h) =>
            LET p == Returned(last'.args[1])
                new1 == IF TypeOf(h) = "FixedJoint" THEN jointAnchor1(h) ELSE p
                new2 == IF TypeOf(h) = "FixedJoint" THEN jointAnchor2(h) ELSE p
            IN  /\ ~last'.result.panic
                /\ last'.op = "setJointAnchor1" =>
                      jointAnchor1(h)' = new1 /\ jointAnchor2(h)' = jointAnchor2(h)
                /\ last'.op = "setJointAnchor2" =>
                      jointAnchor2(h)' = new2 /\ jointAnchor1(h)' = jointAnchor1(h)

C3_AnchorRoundTrip == [][C3_Step]_vars

C3_Witness ==
    /\ last.op = "setJointAnchor1"
    /\ last.handle \in DOMAIN joints
    /\ TypeOf(last.handle) = "RevoluteJoint"
    /\ jointAnchor1(last.handle) = Returned(last.args[1])
    /\ built[last.handle].params.local_anchor1 # last.args[1]

\* C4: a mutator call that does not apply to the joint's kind leaves the whole
\* joint set unchanged: a motor call on a Fixed joint, a Ball-motor call on a
\* Prismatic or Revolute joint, a unit-motor call on a Ball joint (3D).
Inapplicable(op, type) ==
    \/ type = "FixedJoint" /\ op \in MotorOps
    \/ type \in {"PrismaticJoint", "RevoluteJoint"} /\ op \in BallMotorOps
    \/ type = "BallJoint" /\ op \in UnitMotorOps

C4_Step ==
    \A h \in DOMAIN joints :
        (last'.handle = h /\ Inapplicable(last'.op, TypeOf(h))) =>
            joints' = joints /\ ~last'.result.panic

C4_KindMismatchNoOp == [][C4_Step]_vars

C4_Witness ==
    /\ last.op = "jointConfigureUnitMotorVelocity"
    /\ last.handle \in DOMAIN joints
    /\ TypeOf(last.handle) = "BallJoint"
    /\ joints[last.handle].params.motor_model = "ForceBased"

\* C5: on a 3D Ball joint, jointConfigureBallMotorPosition and
\* jointConfigureBallMotor with a quaternion whose norm is not above 1.0e-5
\* change nothing of the motor and raise no error; with a normalizable
\* quaternion the motor gets the normalized quaternion (and the stiffness,
\* damping and, for jointConfigureBallMotor, velocity given).
NotNormalizable(quat) == RLe(norm_squared(quat), R(QuatTolerance * QuatTolerance))

C5_Step ==
    \A h \in DOMAIN joints :
        ( /\ last'.handle = h
          /\ last'.op \in {"jointConfigureBallMotorPosition", "jointConfigureBallMotor"}
          /\ TypeOf(h) = "BallJoint" ) =>
            LET quat == last'.args[1]
                old == joints[h].params
                new == joints'[h].params
                n == Len(last'.args)
            IN  /\ ~last'.result.panic
                /\ NotNormalizable(quat) => new = old
                /\ ~NotNormalizable(quat) =>
                      /\ IsUnitOf(new.motor_target_pos, quat)
                      /\ new.motor_stiffness = last'.args[n - 1]
                      /\ new.motor_damping = last'.args[n]
                      /\ last'.op = "jointConfigureBallMotor" =>
                            new.motor_target_vel = last'.args[2]

C5_DegenerateQuaternionIgnored == [][C5_Step]_vars

C5_Witness ==
    /\ last.op = "jointConfigureBallMotor"
    /\ last.handle \in DOMAIN joints
    /\ TypeOf(last.handle) = "BallJoint"
    /\ ~IsZero(last.args[1])
    /\ NotNormalizable(last.args[1])
    /\ joints[last.handle].params.motor_target_pos # QuatIdentity
    /\ joints[last.handle].params.motor_target_vel # last.args[2]

\* C6: in every reachable state, a Prismatic joint made with limitsEnabled =
\* true, min, max reports enabled limits and exactly min and max (also when
\* min > max); a Ball, Fixed or Revolute joint reports disabled limits and
\* the sentinels -f32::MAX and f32::MAX.
C6_Limits ==
    \A h \in DOMAIN joints :
        LET c == built[h].from
        IN  /\ (c.factory = "prismatic" /\ c.limitsEnabled) =>
                  /\ jointLimitsEnabled(h) = Returned(TRUE)
                  /\ jointLimitsMin(h) = Returned(c.limitsMin)
                  /\ jointLimitsMax(h) = Returned(c.limitsMax)
            /\ jointType(h).value \in {"Ball", "Fixed", "Revolute"} =>
                  /\ jointLimitsEnabled(h) = Returned(FALSE)
                  /\ jointLimitsMin(h) = Returned(-F32_MAX)
                  /\ jointLimitsMax(h) = Returned(F32_MAX)

C6_Witness ==
    /\ last.op = "jointConfigureUnitMotor"
    /\ last.handle \in DOMAIN joints
    /\ built[last.handle].from.factory = "prismatic"
    /\ built[last.handle].from.limitsEnabled
    /\ built[last.handle].from.limitsMin > built[last.handle].from.limitsMax
    /\ jointLimitsMin(last.handle).value > jointLimitsMax(last.handle).value

\* C7: a query or mutator called with a handle that is not in the set fails
\* with NotFound, returns no default value, and leaves the set unchanged.
AllNotFound(h) ==
    /\ IsNotFound(jointBodyHandle1(h))
    /\ IsNotFound(jointBodyHandle2(h))
    /\ IsNotFound(jointType(h))
    /\ IsNotFound(jointFrameX1(h))
    /\ IsNotFound(jointFrameX2(h))
    /\ IsNotFound(jointAnchor1(h))
    /\ IsNotFound(jointAnchor2(h))
    /\ IsNotFound(jointAxis1(h))
    /\ IsNotFound(jointAxis2(h))
    /\ IsNotFound(jointLimitsEnabled(h))
    /\ IsNotFound(jointLimitsMin(h))
    /\ IsNotFound(jointLimitsMax(h))

QueriesNotFound == \A h \in AnyHandle \ DOMAIN joints : AllNotFound(h)

C7_Step ==
    /\ QueriesNotFound
    /\ QueriesNotFound'
    /\ (last'.op \in MutatorOps /\ last'.handle \notin DOMAIN joints) =>
          IsNotFound(last'.result) /\ joints' = joints

Orthonormal(m) ==
    /\ \A i \in 1..3 : dot(m[i], m[i]) = R(1)
    /\ \A i, j \in 1..3 : i # j => dot(m[i], m[j]) = R(0)

RightHandedBasis(a) == Orthonormal(FrameMatrix(a)) /\ det(FrameMatrix(a)) = R(1)

C8_FrameMapsXOntoAxis ==
    \A h \in DOMAIN joints :
        TypeOf(h) \in {"RevoluteJoint", "PrismaticJoint"} =>
            LET a1 == joints[h].params.local_axis1
                a2 == joints[h].params.local_axis2
            IN  /\ IsUnitOf(a1, built[h].from.axis1)
                /\ IsUnitOf(a2, built[h].from.axis2)
                /\ RightHandedBasis(a1)
                /\ RightHandedBasis(a2)
                /\ Apply(jointFrameX1(h).value, Vec(1, 0, 0)) = a1
                /\ Apply(jointFrameX2(h).value, Vec(1, 0, 0)) = a2

\* C9: in every reachable state, a Ball joint has type Ball, no axis and the
\* identity frames; a Fixed joint has no axis, the frames axes1, axes2 and the
\* anchors given to fixed(...); a Revolute or Prismatic joint has the
\* normalized construction axes.
C9_QueriesPerKind ==
    \A h \in DOMAIN joints :
        LET c == built[h].from
        IN  /\ c.factory = "ball" =>
                  /\ jointType(h) = Returned("Ball")
                  /\ jointAxis1(h) = Returned(None)
                  /\ jointAxis2(h) = Returned(None)
                  /\ jointFrameX1(h) = Returned(Identity)
                  /\ jointFrameX2(h) = Returned(Identity)
            /\ c.factory = "fixed" =>
                  /\ jointType(h) = Returned("Fixed")
                  /\ jointAxis1(h) = Returned(None)
                  /\ jointAxis2(h) = Returned(None)
                  /\ jointFrameX1(h) = Returned(c.axes1)
                  /\ jointFrameX2(h) = Returned(c.axes2)
                  /\ jointAnchor1(h) = Returned(c.anchor1)
                  /\ jointAnchor2(h) = Returned(c.anchor2)
            /\ c.factory \in {"revolute", "prismatic"} =>
                  /\ jointType(h).value \in {"Revolute", "Prismatic"}
                  /\ jointAxis1(h).value.some
                  /\ jointAxis2(h).value.some
                  /\ IsUnitOf(jointAxis1(h).value.value, c.axis1)
                  /\ IsUnitOf(jointAxis2(h).value.value, c.axis2)

C9_Witness ==
    /\ last.op = "setJointAnchor1"
    /\ last.handle \in DOMAIN joints
    /\ TypeOf(last.handle) = "FixedJoint"
    /\ last.args[1] # built[last.handle].from.anchor1
    /\ built[last.handle].from.axes1 # built[last.handle].from.axes2
    /\ jointAnchor1(last.handle) = Returned(built[last.handle].from.anchor1)

\* C10: after any mutator calls every joint of the set has the kind and the
\* two body handles it was inserted with, and a mutator call on a handle
\* changes no joint of another handle.
KindAndBodiesKept ==
    \A h \in DOMAIN joints :
        /\ jointType(h) = Returned(jointType_match(built[h].params))
        /\ jointBodyHandle1(h) = Returned(built[h].body1)
        /\ jointBodyHandle2(h) = Returned(built[h].body2)

C10_Step ==
    /\ KindAndBodiesKept'
    /\ last'.op \in MutatorOps =>
          /\ DOMAIN joints' = DOMAIN joints
          /\ \A h \in DOMAIN joints :
                /\ jointType(h)' = jointType(h)
                /\ jointBodyHandle1(h)' = jointBodyHandle1(h)
                /\ jointBodyHandle2(h)' = jointBodyHandle2(h)
                /\ h # last'.handle => joints'[h] = joints[h]

C10_KindAndOthersUnchanged == [][C10_Step]_vars

C10_Witness ==
    /\ last.op \in MutatorOps
    /\ last.handle \in DOMAIN joints
    /\ joints[last.handle].params # built[last.handle].params
    /\ \E h \in DOMAIN joints : h # last.handle /\ TypeOf(h) # TypeOf(last.handle)

====
